---- MODULE Spec2Model ----
(***************************************************************************)
(* Shared-expense splitting and settlement ledger of the backend:          *)
(*   db/expenses.py      create_expense, update_expense, delete_expense    *)
(*   db/transactions.py  create_transaction,                               *)
(*                       get_grouped_transactions_for_user                 *)
(*   app/api/transactions.py  create_transaction_endpoint                  *)
(*                                                                         *)
(* The record store (Supabase) is the only state: the `expenses` table and *)
(* the `transactions` table (one row per DebtRecord).                      *)
(*                                                                         *)
(* db/expenses.py and app/api/transactions.py call create_transaction with *)
(* the keywords expense_id and access_token, and import                    *)
(* get_transactions_by_expense_id, delete_transactions_by_expense_id and   *)
(* update_transactions_by_expense_id from db/transactions.py.  The         *)
(* revision of db/transactions.py at hand declares none of them, so these  *)
(* data-access helpers are modelled from their call sites and the design   *)
(* document; create_transaction keeps the body of the source and gains the *)
(* expense_id column of schemas/transaction.py.                            *)
(*                                                                         *)
(* Money is a Python float in the source.  It is modelled by an exact      *)
(* rational <<n, d>> (d > 0, lowest terms); round(x, 2) is modelled by     *)
(* Round2, so the places where the code rounds are visible.                *)
(***************************************************************************)
EXTENDS Integers, Sequences, FiniteSets, TLC

(***************************** bounds **************************************)
MaxExpenses == 1        \* expenses created in the ledger specification
MaxTx == 4              \* transaction rows ever inserted
MaxParticipants == 2    \* length of a participant list
MaxSplits == 2          \* expenses created in the grouping specification
MaxTime == 2            \* clock values 0..MaxTime (seconds)
MaxGap == 2             \* seconds between two inserts of one request
MaxRows == 3            \* debt rows in the table when settlements are read
MaxSettlements == 1     \* transaction-create requests that insert a row

(***************************** input domains *******************************)
Users == {"u1", "u2", "u3"}
Groups == {"g1", "g2"}
None == "None"                         \* Python None / SQL NULL in a text column
NoExpense == 0                         \* NULL in an expense_id column
Payers == {"u1", "u2"}                 \* the authenticated user of a request
Participants == {"u2", "u3"}           \* ids a participant list is made of
Descriptions == {None, "lunch"}        \* description of a new expense
UpdateDescriptions == {"", "taxi"}     \* description in an edit (never None)
Amounts == {<<10, 1>>, <<-6, 1>>}      \* amount_dollars values: 10.00, -6.00
GroupingAmounts == {<<10, 1>>, <<10001, 1000>>}    \* 10.00 and 10.001
GroupingLists == {<<"u2">>, <<"u2", "u3">>, <<"u3", "u3">>}
GroupSets == {{}, {"g1"}, {"g1", "g2"}}   \* the groups a reader is a member of
ParticipantLists == UNION {[1..n -> Participants] : n \in 0..MaxParticipants}

(***************************** rationals ***********************************)
Abs(x) == IF x < 0 THEN -x ELSE x

RECURSIVE GCD(_, _)
GCD(a, b) == IF b = 0 THEN a ELSE GCD(b, a % b)

\* the rational n/d in lowest terms with a positive denominator
Rat(n, d) ==
    LET g == GCD(Abs(n), Abs(d))
        s == IF d < 0 THEN -1 ELSE 1
    IN  <<(s * n) \div g, (s * d) \div g>>

Zero == <<0, 1>>
RAdd(a, b) == Rat(a[1] * b[2] + b[1] * a[2], a[2] * b[2])
RSub(a, b) == Rat(a[1] * b[2] - b[1] * a[2], a[2] * b[2])
RMulInt(a, k) == Rat(a[1] * k, a[2])
RDivInt(a, k) == Rat(a[1], a[2] * k)
RNeg(a) == <<-a[1], a[2]>>
RPositive(a) == a[1] > 0

\* round(x, 2): the nearest multiple of 0.01, an exact tie going to the even
\* hundredth
Round2(a) ==
    LET c == Abs(a[1]) * 100
        q == c \div a[2]
        r == c - q * a[2]
        m == IF 2 * r < a[2] THEN q
             ELSE IF 2 * r > a[2] THEN q + 1
             ELSE IF q % 2 = 0 THEN q ELSE q + 1
    IN  Rat((IF a[1] < 0 THEN -1 ELSE 1) * m, 100)

(***************************** state ***************************************)
VARIABLES
    expenses,       \* rows of table "expenses"
    transactions,   \* rows of table "transactions" (the DebtRecords)
    next_expense_id,
    next_transaction_id,
    now,            \* the store's clock, stamps created_at
    last,           \* the last completed request: its inputs and its result
    calls           \* the requests in flight: each one's position and locals

vars == <<expenses, transactions, next_expense_id, next_transaction_id, now, last, calls>>

\* the requests that can be in flight together: two edits and one delete
Updaters == {"a", "b"}
Deleters == {"d"}
CallIds == Updaters \cup Deleters

NoArgs == [none |-> TRUE]
NoOut == [none |-> TRUE]
NoFaults == [none |-> TRUE]

\* a request that has not arrived
Idle ==
    [pc |-> "idle", expense_id |-> NoExpense, updates |-> <<>>,
     current_expense_data |-> NoOut, existing_transactions |-> {},
     group_id |-> None, i |-> 1, raised |-> FALSE, result |-> NoOut]

\* the record of a completed request: pre is the number of transactions that
\* referenced expense eid when the request arrived; seq alternates so that two
\* equal requests in a row are two steps; faults names the store calls that
\* failed while it ran
Request(op, eid, ok, failed, args, out) ==
    [op |-> op, eid |-> eid, ok |-> ok, failed |-> failed, args |-> args,
     out |-> out,
     pre |-> Cardinality({t \in transactions : t.expense_id = eid}),
     seq |-> 1 - last.seq,
     faults |-> NoFaults]

\* the record r of a request during which the store calls in faults failed
WithFaults(r, faults) == [r EXCEPT !.faults = faults]

(***************************** the record store ****************************)
\* rows of `transactions` whose expense_id column equals expense_id
get_transactions_by_expense_id(txs, expense_id) ==
    {t \in txs : t.expense_id = expense_id}

\* delete from transactions where expense_id = expense_id
delete_transactions_by_expense_id(txs, expense_id) ==
    {t \in txs : t.expense_id # expense_id}

\* update transactions set amount (when given) and notes (when not None)
\* where expense_id = expense_id
update_transactions_by_expense_id(txs, expense_id, has_amount, amount, notes) ==
    {IF t.expense_id = expense_id
     THEN [t EXCEPT !.amount = IF has_amount THEN amount ELSE @,
                    !.notes = IF notes # None THEN notes ELSE @]
     ELSE t : t \in txs}

\* transactions.expense_id references expenses(expense_id) ON DELETE CASCADE
on_delete_cascade(txs, deleted_expense_ids) ==
    {t \in txs : t.expense_id \notin deleted_expense_ids}

\* the row create_transaction inserts; the store adds transaction_id and
\* created_at
create_transaction(transaction_id, created_at, group_id, user_owed, user_owing, amount, notes, expense_id) ==
    [transaction_id |-> transaction_id,
     group_id |-> group_id,
     user_owed |-> user_owed,
     user_owing |-> user_owing,
     amount |-> amount,
     notes |-> notes,
     expense_id |-> expense_id,
     created_at |-> created_at]

\* the loop `for participant_id in participant_user_ids: create_transaction(...)`
\* the i-th insert is stamped first_at + (i-1)*gap; when fail_at = i > 0 the
\* i-th insert raises and the loop ends with i-1 rows inserted
split_rows(first_id, first_at, gap, fail_at, group_id, user_id, participant_user_ids, amount, notes, expense_id) ==
    LET n == IF fail_at = 0 THEN Len(participant_user_ids) ELSE fail_at - 1
    IN  {create_transaction(first_id + i - 1, first_at + (i - 1) * gap, group_id,
                            user_id, participant_user_ids[i], amount, notes,
                            expense_id) : i \in 1..n}

\* time taken by n inserts that are gap apart
Elapsed(n, gap) == IF n > 1 THEN (n - 1) * gap ELSE 0

Init ==
    /\ expenses = {}
    /\ transactions = {}
    /\ next_expense_id = 1
    /\ next_transaction_id = 1
    /\ now = 0
    /\ last = [op |-> "init", eid |-> NoExpense, ok |-> TRUE, failed |-> FALSE,
               args |-> NoArgs, out |-> NoOut, pre |-> 0, seq |-> 0, faults |-> NoFaults]
    /\ calls = [c \in CallIds |-> Idle]

(***************************** create_expense ******************************)
\* has_participants: the list is given and not empty
has_participants(participant_user_ids) ==
    Len(participant_user_ids) > 0

\* (mutant) the creator is left out of the count
amount_per_person_without_creator(amount_dollars, participant_user_ids) ==
    RDivInt(amount_dollars, Len(participant_user_ids))

\* amount each participant owes: the creator counts as one more participant
amount_per_person(amount_dollars, participant_user_ids) ==
    RDivInt(amount_dollars, Len(participant_user_ids) + 1)

\* (mutant) the split does not look at is_group_expense
create_expense_transactions_unflagged(expense_id, user_id, amount_dollars, description, is_group_expense, group_id, participant_user_ids, fail_at, gap) ==
    IF group_id # None /\ has_participants(participant_user_ids)
    THEN split_rows(next_transaction_id, now, gap, fail_at, group_id, user_id,
                    participant_user_ids,
                    amount_per_person(amount_dollars, participant_user_ids),
                    description, expense_id)
    ELSE {}

\* the rows create_expense inserts into `transactions`
create_expense_transactions(expense_id, user_id, amount_dollars, description, is_group_expense, group_id, participant_user_ids, fail_at, gap) ==
    IF is_group_expense /\ group_id # None /\ has_participants(participant_user_ids)
    THEN split_rows(next_transaction_id, now, gap, fail_at, group_id, user_id,
                    participant_user_ids,
                    amount_per_person(amount_dollars, participant_user_ids),
                    description, expense_id)
    ELSE {}

\* _map_expense_fields: the expense row under the names of the API schema
map_expense_fields(expense_data) ==
    [id |-> expense_data.expense_id,
     user_id |-> expense_data.user_id,
     amount_dollars |-> expense_data.amount,
     credit |-> expense_data.credit,
     category |-> expense_data.category,
     description |-> expense_data.notes]

\* (mutant) the exception of a failed create_transaction is not caught
create_expense_result_raising(expense_data, fail_at) ==
    IF fail_at # 0 THEN NoOut ELSE map_expense_fields(expense_data)

\* what create_expense returns once the expense row is inserted: the
\* exception of a failed create_transaction (fail_at # 0) is caught and logged
create_expense_result(expense_data, fail_at) ==
    map_expense_fields(expense_data)

\* insert_fails: the insert of the expense row raises (RuntimeError, nothing
\* written).  fail_at: 0, or the index of the create_transaction call that
\* raises (caught and logged, the expense is still returned).
create_expense(user_id, amount_dollars, description, is_group_expense, group_id, participant_user_ids, insert_fails, fail_at, gap) ==
    LET expense_id == next_expense_id
        row == [expense_id |-> expense_id, user_id |-> user_id,
                amount |-> amount_dollars, credit |-> FALSE,
                category |-> "Food", notes |-> description]
        rows == create_expense_transactions(expense_id, user_id, amount_dollars,
                    description, is_group_expense, group_id,
                    participant_user_ids, fail_at, gap)
        splits == is_group_expense /\ group_id # None
                    /\ Len(participant_user_ids) > 0
        args == [user_id |-> user_id, amount_dollars |-> amount_dollars,
                 description |-> description,
                 is_group_expense |-> is_group_expense, group_id |-> group_id,
                 participant_user_ids |-> participant_user_ids]
    IN  /\ fail_at \in 0..Len(participant_user_ids)
        /\ gap > 0 => Cardinality(rows) > 1
        /\ fail_at > 0 => (splits /\ ~insert_fails)
        /\ insert_fails => gap = 0
        /\ next_transaction_id + Cardinality(rows) - 1 <= MaxTx
        /\ IF insert_fails
           THEN /\ UNCHANGED <<expenses, transactions, next_expense_id,
                               next_transaction_id, now>>
                /\ last' = WithFaults(Request("create_expense", NoExpense, FALSE, TRUE,
                                              args, NoOut),
                                      [insert_fails |-> insert_fails, fail_at |-> fail_at])
           ELSE /\ expenses' = expenses \cup {row}
                /\ transactions' = transactions \cup rows
                /\ next_expense_id' = next_expense_id + 1
                /\ next_transaction_id' = next_transaction_id + Cardinality(rows)
                /\ now' = now + Elapsed(Cardinality(rows), gap)
                /\ last' = WithFaults(Request("create_expense", expense_id,
                                              create_expense_result(row, fail_at) # NoOut,
                                              fail_at # 0, args,
                                              create_expense_result(row, fail_at)),
                                      [insert_fails |-> insert_fails, fail_at |-> fail_at])

(***************************** update_expense ******************************)
\* the `updates` dict the endpoint builds: the keys whose value is not None
Has(updates, key) == key \in DOMAIN updates

\* updates.get("amount_dollars", current_expense_data.get("amount", 0))
new_amount(updates, current_expense_data) ==
    IF Has(updates, "amount_dollars") THEN updates.amount_dollars
    ELSE current_expense_data.amount

\* updates.get("description") or current_expense_data.get("notes")
new_description(updates, current_expense_data) ==
    IF Has(updates, "description") /\ updates.description # ""
    THEN updates.description
    ELSE current_expense_data.notes

\* set(t.get("user_owing") for t in existing_transactions if t.get("user_owing"))
unique_participants(existing_transactions) ==
    {t.user_owing : t \in existing_transactions}

\* (mutant) the rows are counted, not the distinct debtors
new_amount_per_person_counting_rows(amount, existing_transactions) ==
    RDivInt(amount, Cardinality(existing_transactions) + 1)

\* new_amount / (len(unique_participants) + 1)
new_amount_per_person(amount, existing_transactions) ==
    RDivInt(amount, Cardinality(unique_participants(existing_transactions)) + 1)

\* clean_updates applied to the expense row
clean_updates(updates, row) ==
    [row EXCEPT !.amount = IF Has(updates, "amount_dollars")
                           THEN updates.amount_dollars ELSE @,
                !.notes = IF Has(updates, "description")
                          THEN updates.description ELSE @]

\* (mutant) the old rows are not deleted before the new ones are created
cascade_participants_without_delete(txs, expense_id, updates, current_expense_data, group_id, cascade_fail, gap) ==
    IF cascade_fail = 1 THEN txs
    ELSE txs \cup
         split_rows(next_transaction_id, now, gap,
                    IF cascade_fail = 0 THEN 0 ELSE cascade_fail - 1,
                    group_id, current_expense_data.user_id,
                    updates.participant_user_ids,
                    amount_per_person(new_amount(updates, current_expense_data),
                                      updates.participant_user_ids),
                    new_description(updates, current_expense_data),
                    expense_id)

\* participants changed: delete the old rows, create one per new participant.
\* cascade_fail = 0: no store call raises; 1: the delete raises; 1 + i: the
\* i-th create_transaction raises.  An exception ends the cascade where it is.
cascade_participants(txs, expense_id, updates, current_expense_data, group_id, cascade_fail, gap) ==
    IF cascade_fail = 1 THEN txs
    ELSE delete_transactions_by_expense_id(txs, expense_id) \cup
         split_rows(next_transaction_id, now, gap,
                    IF cascade_fail = 0 THEN 0 ELSE cascade_fail - 1,
                    group_id, current_expense_data.user_id,
                    updates.participant_user_ids,
                    amount_per_person(new_amount(updates, current_expense_data),
                                      updates.participant_user_ids),
                    new_description(updates, current_expense_data),
                    expense_id)

\* only the amount changed (the description may have changed with it)
cascade_amount(txs, expense_id, updates, current_expense_data, existing_transactions, cascade_fail) ==
    IF cascade_fail = 1 THEN txs
    ELSE update_transactions_by_expense_id(txs, expense_id, TRUE,
             new_amount_per_person(new_amount(updates, current_expense_data),
                                   existing_transactions),
             IF Has(updates, "description") THEN updates.description ELSE None)

\* (mutant) a description edit does not reach the transactions
cascade_description_skipped(txs, expense_id, updates, cascade_fail) ==
    txs

\* only the description changed
cascade_description(txs, expense_id, updates, cascade_fail) ==
    IF cascade_fail = 1 THEN txs
    ELSE update_transactions_by_expense_id(txs, expense_id, FALSE, Zero,
                                           updates.description)

\* (mutant) the test `if is_group_expense and group_id` is left out
cascade_transactions_unguarded(txs, expense_id, updates, current_expense_data, existing_transactions, group_id, cascade_fail, gap) ==
    IF Has(updates, "participant_user_ids")
    THEN cascade_participants(txs, expense_id, updates, current_expense_data,
                              group_id, cascade_fail, gap)
    ELSE IF Has(updates, "amount_dollars")
    THEN cascade_amount(txs, expense_id, updates, current_expense_data,
                        existing_transactions, cascade_fail)
    ELSE IF Has(updates, "description")
    THEN cascade_description(txs, expense_id, updates, cascade_fail)
    ELSE txs

\* the cascade to `transactions`: which branch runs
cascade_transactions(txs, expense_id, updates, current_expense_data, existing_transactions, group_id, cascade_fail, gap) ==
    IF existing_transactions = {} \/ group_id = None
    THEN txs
    ELSE IF Has(updates, "participant_user_ids")
    THEN cascade_participants(txs, expense_id, updates, current_expense_data,
                              group_id, cascade_fail, gap)
    ELSE IF Has(updates, "amount_dollars")
    THEN cascade_amount(txs, expense_id, updates, current_expense_data,
                        existing_transactions, cascade_fail)
    ELSE IF Has(updates, "description")
    THEN cascade_description(txs, expense_id, updates, cascade_fail)
    ELSE txs

\* number of store calls the cascade of this request makes
cascade_calls(updates, existing_transactions, group_id) ==
    IF existing_transactions = {} \/ group_id = None THEN 0
    ELSE IF Has(updates, "participant_user_ids")
    THEN 1 + Len(updates.participant_user_ids)
    ELSE IF Has(updates, "amount_dollars") \/ Has(updates, "description") THEN 1
    ELSE 0

\* (mutant) the exception of a failed cascade step is not caught
expense_row_updated_unless_cascade_failed(updates, cascade_fail, row_fail) ==
    /\ Has(updates, "amount_dollars") \/ Has(updates, "description")
    /\ ~row_fail
    /\ cascade_fail = 0

\* the update of the expense row is reached and succeeds: clean_updates is
\* not empty and the store call returns the row; an exception of the cascade
\* (cascade_fail # 0) was caught and logged before
expense_row_updated(updates, cascade_fail, row_fail) ==
    /\ Has(updates, "amount_dollars") \/ Has(updates, "description")
    /\ ~row_fail

\* row_fail: the update of the expense row raises or returns no row
update_expense(expense_id, updates, group_id, cascade_fail, row_fail, gap) ==
    LET current == {e \in expenses : e.expense_id = expense_id}
        current_expense_data == CHOOSE e \in current : TRUE
        existing_transactions == get_transactions_by_expense_id(transactions, expense_id)
        txs == cascade_transactions(transactions, expense_id, updates,
                   current_expense_data, existing_transactions, group_id,
                   cascade_fail, gap)
        inserted == {t \in txs : t.transaction_id >= next_transaction_id}
        only_participants == ~Has(updates, "amount_dollars") /\ ~Has(updates, "description")
        updated == expense_row_updated(updates, cascade_fail, row_fail)
        result == IF only_participants THEN map_expense_fields(current_expense_data)
                  ELSE IF updated THEN map_expense_fields(clean_updates(updates, current_expense_data))
                  ELSE NoOut
    IN  IF current = {}
        THEN /\ group_id = None /\ cascade_fail = 0 /\ ~row_fail /\ gap = 0
             /\ UNCHANGED <<expenses, transactions, next_expense_id,
                            next_transaction_id, now>>
             /\ last' = Request("update_expense", expense_id, FALSE, FALSE,
                                updates, NoOut)
        ELSE /\ group_id \in IF existing_transactions = {} THEN {None}
                              ELSE {t.group_id : t \in existing_transactions}
             /\ cascade_fail \in 0..cascade_calls(updates, existing_transactions, group_id)
             /\ row_fail => ~only_participants
             /\ gap > 0 => Cardinality(inserted) > 1
             /\ next_transaction_id + Cardinality(inserted) - 1 <= MaxTx
             /\ transactions' = txs
             /\ next_transaction_id' = next_transaction_id + Cardinality(inserted)
             /\ now' = now + Elapsed(Cardinality(inserted), gap)
             /\ expenses' = IF updated
                            THEN (expenses \ current) \cup
                                 {clean_updates(updates, current_expense_data)}
                            ELSE expenses
             /\ UNCHANGED next_expense_id
             /\ last' = WithFaults(Request("update_expense", expense_id, result # NoOut,
                                           cascade_fail # 0 \/ row_fail, updates, result),
                                   [cascade_fail |-> cascade_fail, row_fail |-> row_fail])

(***************************** delete_expense ******************************)
\* (mutant) the delete query is built but never executed
delete_expense_not_executed(expense_id, data_is_list) ==
    /\ UNCHANGED <<expenses, transactions, next_expense_id, next_transaction_id, now>>
    /\ last' = Request("delete_expense", expense_id, TRUE, FALSE,
                       [expense_id |-> expense_id], NoOut)

\* data_is_list: the store returns the deleted rows (resp.data is a list);
\* otherwise resp.data is None and delete_expense returns True
delete_expense(expense_id, data_is_list) ==
    LET deleted == {e \in expenses : e.expense_id = expense_id}
    IN  /\ expenses' = expenses \ deleted
        /\ transactions' = on_delete_cascade(transactions,
                                {e.expense_id : e \in deleted})
        /\ UNCHANGED <<next_expense_id, next_transaction_id, now>>
        /\ last' = Request("delete_expense", expense_id,
                           IF data_is_list THEN Cardinality(deleted) > 0 ELSE TRUE,
                           FALSE, [expense_id |-> expense_id], NoOut)

(***************************** requests ************************************)
Empty == <<>>
UpdatesDicts ==
    {a @@ d @@ p :
        a \in {Empty} \cup {[amount_dollars |-> x] : x \in Amounts},
        d \in {Empty} \cup {[description |-> x] : x \in UpdateDescriptions},
        p \in {Empty} \cup {[participant_user_ids |-> x] : x \in ParticipantLists}}
    \ {Empty}

ExpenseIds == 1..MaxExpenses

\* the ledger with a store whose calls all succeed
CreateExpense ==
    \E user_id \in Payers, amount_dollars \in Amounts, description \in Descriptions,
       is_group_expense \in BOOLEAN, group_id \in Groups \cup {None},
       participant_user_ids \in ParticipantLists :
        /\ next_expense_id <= MaxExpenses
        /\ create_expense(user_id, amount_dollars, description, is_group_expense,
                          group_id, participant_user_ids, FALSE, 0, 0)
        /\ UNCHANGED calls

UpdateExpense ==
    \E expense_id \in ExpenseIds, updates \in UpdatesDicts,
       group_id \in Groups \cup {None} :
        /\ update_expense(expense_id, updates, group_id, 0, FALSE, 0)
        /\ UNCHANGED calls

DeleteExpense ==
    \E expense_id \in ExpenseIds, data_is_list \in BOOLEAN :
        /\ delete_expense(expense_id, data_is_list)
        /\ UNCHANGED calls

Next ==
    \/ CreateExpense
    \/ UpdateExpense
    \/ DeleteExpense

Spec == Init /\ [][Next]_vars

\* the edits sent to a store whose calls may fail
FaultyUpdatesDicts ==
    {a @@ d @@ p :
        a \in {Empty, [amount_dollars |-> <<-6, 1>>]},
        d \in {Empty, [description |-> "taxi"]},
        p \in {Empty, [participant_user_ids |-> <<"u3">>],
                     [participant_user_ids |-> <<"u3", "u2">>]}}
    \ {Empty}

\* the ledger with a store whose calls may fail
CreateExpenseFaulty ==
    \E user_id \in Payers, amount_dollars \in Amounts, description \in Descriptions,
       is_group_expense \in BOOLEAN, group_id \in Groups \cup {None},
       participant_user_ids \in ParticipantLists,
       insert_fails \in BOOLEAN, fail_at \in 0..MaxParticipants :
        /\ next_expense_id <= MaxExpenses
        /\ create_expense(user_id, amount_dollars, description, is_group_expense,
                          group_id, participant_user_ids, insert_fails, fail_at, 0)
        /\ UNCHANGED calls

UpdateExpenseFaulty ==
    \E expense_id \in ExpenseIds, updates \in FaultyUpdatesDicts,
       group_id \in Groups \cup {None},
       cascade_fail \in 0..(MaxParticipants + 1), row_fail \in BOOLEAN :
        /\ update_expense(expense_id, updates, group_id, cascade_fail, row_fail, 0)
        /\ UNCHANGED calls

NextFaults ==
    \/ CreateExpenseFaulty
    \/ UpdateExpenseFaulty
    \/ DeleteExpense

SpecFaults == Init /\ [][NextFaults]_vars

(***************************** get_grouped_transactions_for_user ***********)
Window == 1     \* seconds: `if time_diff <= 1.0`

RECURSIVE SumAmounts(_, _, _, _)
\* the loop `for transaction in all_transactions: ... += amount` over the rows
\* whose column `column` equals user_id
SumAmounts(all_transactions, i, column, user_id) ==
    IF i > Len(all_transactions) THEN Zero
    ELSE RAdd(IF all_transactions[i][column] = user_id THEN all_transactions[i].amount ELSE Zero,
              SumAmounts(all_transactions, i + 1, column, user_id))

\* balance_owed: sum of amount over the rows with user_owed == user_id
balance_owed(user_id, all_transactions) ==
    SumAmounts(all_transactions, 1, "user_owed", user_id)

\* mutant: the debtor total read from the creditor column
balance_owing_from_creditor_column(user_id, all_transactions) ==
    SumAmounts(all_transactions, 1, "user_owed", user_id)

\* balance_owing: sum of amount over the rows with user_owing == user_id
balance_owing(user_id, all_transactions) ==
    SumAmounts(all_transactions, 1, "user_owing", user_id)

\* the subsequence of seq at the positions in idxs, in order
RECURSIVE Pick(_, _, _)
Pick(seq, idxs, i) ==
    IF i > Len(seq) THEN <<>>
    ELSE (IF i \in idxs THEN <<seq[i]>> ELSE <<>>) \o Pick(seq, idxs, i + 1)

\* (mutant) the test `t.get("user_owed") != transaction.get("user_owed")` is
\* left out
transaction_group_any_creditor(all_transactions, processed_ids, transaction) ==
    {j \in 1..Len(all_transactions) :
        /\ all_transactions[j].transaction_id \notin processed_ids
        /\ all_transactions[j].group_id = transaction.group_id
        /\ Abs(all_transactions[j].created_at - transaction.created_at) <= Window}

\* mutant: `time_diff < 1.0`
transaction_group_strictly_inside_window(all_transactions, processed_ids, transaction) ==
    {j \in 1..Len(all_transactions) :
        /\ all_transactions[j].transaction_id \notin processed_ids
        /\ all_transactions[j].group_id = transaction.group_id
        /\ all_transactions[j].user_owed = transaction.user_owed
        /\ Abs(all_transactions[j].created_at - transaction.created_at) < Window}

\* positions of the unprocessed rows with the group and creditor of
\* `transaction`, created within Window seconds of it
transaction_group(all_transactions, processed_ids, transaction) ==
    {j \in 1..Len(all_transactions) :
        /\ all_transactions[j].transaction_id \notin processed_ids
        /\ all_transactions[j].group_id = transaction.group_id
        /\ all_transactions[j].user_owed = transaction.user_owed
        /\ Abs(all_transactions[j].created_at - transaction.created_at) <= Window}

\* (mutant) participant_count counts the rows, not the distinct debtors
grouped_transaction_counting_rows(all_transactions, transaction, idxs) ==
    LET members == Pick(all_transactions, idxs, 1)
        user_owing_set == {all_transactions[j].user_owing : j \in idxs}
        participant_count == Len(members)
        sample_transaction == members[1]
        amount_per_person_ == sample_transaction.amount
    IN  [group_id |-> transaction.group_id,
         user_owed |-> transaction.user_owed,
         user_owing_list |-> user_owing_set,
         amount_per_person |-> amount_per_person_,
         total_amount |-> Round2(RMulInt(amount_per_person_, participant_count + 1)),
         participant_count |-> participant_count + 1,
         created_at |-> transaction.created_at,
         transaction_ids |-> [k \in 1..Len(members) |-> members[k].transaction_id],
         notes |-> sample_transaction.notes]

\* the grouped_transaction dict built from a seed row and its group
grouped_transaction(all_transactions, transaction, idxs) ==
    LET members == Pick(all_transactions, idxs, 1)
        user_owing_set == {all_transactions[j].user_owing : j \in idxs}
        participant_count == Cardinality(user_owing_set)
        sample_transaction == members[1]
        amount_per_person_ == sample_transaction.amount
    IN  [group_id |-> transaction.group_id,
         user_owed |-> transaction.user_owed,
         user_owing_list |-> user_owing_set,
         amount_per_person |-> amount_per_person_,
         total_amount |-> Round2(RMulInt(amount_per_person_, participant_count + 1)),
         participant_count |-> participant_count + 1,
         created_at |-> transaction.created_at,
         transaction_ids |-> [k \in 1..Len(members) |-> members[k].transaction_id],
         notes |-> sample_transaction.notes]

RECURSIVE grouped_transactions_marking_seed_only(_, _, _, _)
\* (mutant) only the seed row of a cluster is added to processed_ids
grouped_transactions_marking_seed_only(all_transactions, i, processed_ids, grouped) ==
    IF i > Len(all_transactions) THEN grouped
    ELSE IF all_transactions[i].transaction_id \in processed_ids
    THEN grouped_transactions_marking_seed_only(all_transactions, i + 1, processed_ids, grouped)
    ELSE LET idxs == transaction_group(all_transactions, processed_ids, all_transactions[i])
         IN  grouped_transactions_marking_seed_only(all_transactions, i + 1,
                 processed_ids \cup {all_transactions[i].transaction_id},
                 Append(grouped, grouped_transaction(all_transactions, all_transactions[i], idxs)))

RECURSIVE grouped_transactions_prepending(_, _, _, _)
\* (mutant) each new split is put in front of the list
grouped_transactions_prepending(all_transactions, i, processed_ids, grouped) ==
    IF i > Len(all_transactions) THEN grouped
    ELSE IF all_transactions[i].transaction_id \in processed_ids
    THEN grouped_transactions_prepending(all_transactions, i + 1, processed_ids, grouped)
    ELSE LET idxs == transaction_group(all_transactions, processed_ids, all_transactions[i])
         IN  grouped_transactions_prepending(all_transactions, i + 1,
                 processed_ids \cup {all_transactions[j].transaction_id : j \in idxs},
                 <<grouped_transaction(all_transactions, all_transactions[i], idxs)>> \o grouped)

RECURSIVE grouped_transactions(_, _, _, _)
\* the loop `for transaction in all_transactions` that clusters the rows
grouped_transactions(all_transactions, i, processed_ids, grouped) ==
    IF i > Len(all_transactions) THEN grouped
    ELSE IF all_transactions[i].transaction_id \in processed_ids
    THEN grouped_transactions(all_transactions, i + 1, processed_ids, grouped)
    ELSE LET idxs == transaction_group(all_transactions, processed_ids, all_transactions[i])
         IN  grouped_transactions(all_transactions, i + 1,
                 processed_ids \cup {all_transactions[j].transaction_id : j \in idxs},
                 Append(grouped, grouped_transaction(all_transactions, all_transactions[i], idxs)))

\* all_transactions is what the store returned for
\* select * where group_id in group_ids order by created_at desc
get_grouped_transactions_for_user(user_id, group_ids, all_transactions) ==
    IF group_ids = {}
    THEN [transactions |-> <<>>, user_balance |-> Zero]
    ELSE [transactions |-> grouped_transactions(all_transactions, 1, {}, <<>>),
          user_balance |-> Round2(RSub(balance_owed(user_id, all_transactions), balance_owing(user_id, all_transactions))),
          total_owed |-> Round2(balance_owed(user_id, all_transactions)),
          total_owing |-> Round2(balance_owing(user_id, all_transactions))]

RECURSIVE FetchOrders(_)
\* the orders in which the store may return rows: newest first, rows of equal
\* created_at in any order
FetchOrders(rows) ==
    IF rows = {} THEN {<<>>}
    ELSE LET newest == {r \in rows : \A q \in rows : q.created_at <= r.created_at}
         IN  UNION {{<<r>> \o rest : rest \in FetchOrders(rows \ {r})} : r \in newest}

\* GET /settlements/me for user_id, member of the groups group_ids
GetGrouped ==
    \E user_id \in Users, group_ids \in GroupSets :
      \E all_transactions \in FetchOrders({t \in transactions : t.group_id \in group_ids}) :
        /\ UNCHANGED <<expenses, transactions, next_expense_id, next_transaction_id, now, calls>>
        /\ last' = [op |-> "get_grouped", eid |-> NoExpense, ok |-> TRUE, failed |-> FALSE,
                    args |-> [user_id |-> user_id, group_ids |-> group_ids],
                    out |-> get_grouped_transactions_for_user(user_id, group_ids, all_transactions),
                    pre |-> 0, seq |-> 0, faults |-> NoFaults]

\* a split expense whose inserts are gap seconds apart
CreateExpenseTimed ==
    \E user_id \in Payers, amount_dollars \in GroupingAmounts, group_id \in Groups,
       participant_user_ids \in GroupingLists, gap \in 0..MaxGap :
        /\ next_expense_id <= MaxSplits
        /\ Cardinality(transactions) + Len(participant_user_ids) <= MaxRows
        /\ now + Elapsed(Len(participant_user_ids), gap) <= MaxTime
        /\ create_expense(user_id, amount_dollars, "lunch", TRUE, group_id, participant_user_ids, FALSE, 0, gap)
        /\ UNCHANGED calls

\* time passes between two requests
Tick ==
    /\ now < MaxTime
    /\ now' = now + 1
    /\ last' = [op |-> "tick", eid |-> NoExpense, ok |-> TRUE, failed |-> FALSE, args |-> NoArgs, out |-> NoOut, pre |-> 0, seq |-> 0, faults |-> NoFaults]
    /\ UNCHANGED <<expenses, transactions, next_expense_id, next_transaction_id, calls>>

NextGrouping ==
    \/ CreateExpenseTimed
    \/ Tick
    \/ GetGrouped

SpecGrouping == Init /\ [][NextGrouping]_vars

(***************************** create_transaction_endpoint *****************)
\* notes of a transaction-create request
TransactionNotes == {None, "lunch", "settlement", "Settlement"}

\* str.lower() on the notes the requests carry
Lower(notes) ==
    CASE notes = "Settlement" -> "settlement"
      [] notes = "SETTLEMENT" -> "settlement"
      [] notes = "Lunch" -> "lunch"
      [] OTHER -> notes

\* (mutant) the note compared without lower()
is_settlement_case_sensitive(notes) ==
    notes # None /\ notes # "" /\ notes = "settlement"

\* `if transaction.notes and transaction.notes.lower() == "settlement"`
is_settlement(notes) ==
    notes # None /\ notes # "" /\ Lower(notes) = "settlement"

\* the row the create_settlement_expense procedure inserts
create_settlement_expense(expense_id, p_user_id, p_amount, p_credit, p_notes) ==
    [expense_id |-> expense_id, user_id |-> p_user_id, amount |-> p_amount,
     credit |-> p_credit, category |-> "Settlement", notes |-> p_notes]

\* the parameters of the procedure call for the payer (user_owed)
payer_settlement_params(user_owed, amount) ==
    [p_user_id |-> user_owed, p_amount |-> amount, p_credit |-> FALSE,
     p_category |-> "Settlement", p_notes |-> "Settlement paid to group member"]

\* (mutant) the recipient's expense recorded as an outflow
recipient_settlement_params_as_outflow(user_owing, amount) ==
    [p_user_id |-> user_owing, p_amount |-> amount, p_credit |-> FALSE,
     p_category |-> "Settlement", p_notes |-> "Settlement received from group transaction"]

\* the parameters of the procedure call for the recipient (user_owing)
recipient_settlement_params(user_owing, amount) ==
    [p_user_id |-> user_owing, p_amount |-> amount, p_credit |-> TRUE,
     p_category |-> "Settlement", p_notes |-> "Settlement received from group transaction"]

\* (mutant) both procedure calls in one try block: a failure of the first
\* skips the second
settlement_expenses_in_one_try(first_id, user_owed, user_owing, amount, payer_fails, recipient_fails) ==
    LET p == payer_settlement_params(user_owed, amount)
        r == recipient_settlement_params(user_owing, amount)
    IN  [payer |-> IF payer_fails THEN {}
                   ELSE {create_settlement_expense(first_id, p.p_user_id, p.p_amount, p.p_credit, p.p_notes)},
         recipient |-> IF payer_fails \/ recipient_fails THEN {}
                       ELSE {create_settlement_expense(first_id + 1, r.p_user_id, r.p_amount, r.p_credit, r.p_notes)}]

\* the expense rows the two procedure calls insert, each call in its own try
\* block: payer_fails, recipient_fails say which call raises
settlement_expenses(first_id, user_owed, user_owing, amount, payer_fails, recipient_fails) ==
    LET p == payer_settlement_params(user_owed, amount)
        r == recipient_settlement_params(user_owing, amount)
        recipient_id == IF payer_fails THEN first_id ELSE first_id + 1
    IN  [payer |-> IF payer_fails THEN {}
                   ELSE {create_settlement_expense(first_id, p.p_user_id, p.p_amount, p.p_credit, p.p_notes)},
         recipient |-> IF recipient_fails THEN {}
                       ELSE {create_settlement_expense(recipient_id, r.p_user_id, r.p_amount, r.p_credit, r.p_notes)}]

\* POST /transactions.  insert_fails: create_transaction raises, answered
\* with 400.  payer_fails, recipient_fails: the procedure call for that side
\* raises, which is logged and the transaction is still returned.
create_transaction_endpoint(group_id, user_owed, user_owing, amount, notes, insert_fails, payer_fails, recipient_fails) ==
    LET result == create_transaction(next_transaction_id, now, group_id, user_owed, user_owing, amount, notes, NoExpense)
        written == IF is_settlement(notes)
                   THEN settlement_expenses(next_expense_id, user_owed, user_owing, amount, payer_fails, recipient_fails)
                   ELSE [payer |-> {}, recipient |-> {}]
        args == [group_id |-> group_id, user_owed |-> user_owed, user_owing |-> user_owing,
                 amount |-> amount, notes |-> notes, insert_fails |-> insert_fails,
                 payer_fails |-> payer_fails, recipient_fails |-> recipient_fails]
    IN  /\ (payer_fails \/ recipient_fails) => (is_settlement(notes) /\ ~insert_fails)
        /\ IF insert_fails
           THEN /\ UNCHANGED <<expenses, transactions, next_expense_id, next_transaction_id, now>>
                /\ last' = Request("create_transaction", NoExpense, FALSE, TRUE, args, NoOut)
           ELSE /\ transactions' = transactions \cup {result}
                /\ expenses' = expenses \cup written.payer \cup written.recipient
                /\ next_transaction_id' = next_transaction_id + 1
                /\ next_expense_id' = next_expense_id + Cardinality(written.payer) + Cardinality(written.recipient)
                /\ UNCHANGED now
                /\ last' = Request("create_transaction", NoExpense, TRUE, payer_fails \/ recipient_fails, args, result)

CreateTransaction ==
    \E group_id \in Groups, user_owed \in Payers, user_owing \in Participants,
       amount \in Amounts, notes \in TransactionNotes,
       insert_fails \in BOOLEAN, payer_fails \in BOOLEAN, recipient_fails \in BOOLEAN :
        /\ Cardinality({t \in transactions : t.expense_id = NoExpense}) < MaxSettlements
        /\ create_transaction_endpoint(group_id, user_owed, user_owing, amount, notes,
                                       insert_fails, payer_fails, recipient_fails)
        /\ UNCHANGED calls

NextSettle ==
    \/ CreateExpense
    \/ CreateTransaction

SpecSettle == Init /\ [][NextSettle]_vars

(***************************** requests in flight together *****************)
\* update_expense and delete_expense run without a lock or a store
\* transaction: each of their store calls is one step, and the steps of the
\* requests in flight interleave freely.  An edit here changes the
\* participant list only or the amount only.
RaceLists == {<<"u2">>, <<"u3">>}
RaceUpdates ==
    {[participant_user_ids |-> x] : x \in RaceLists}
        \cup {[amount_dollars |-> x] : x \in Amounts}
RaceSplits == {<<"u2">>, <<"u2", "u3">>}
RaceExpense == 1

\* (mutant) transactions.expense_id carries no reference constraint
references_expense_unchecked(exps, expense_id) ==
    TRUE

\* transactions.expense_id references expenses(expense_id): an insert whose
\* expense_id names no row of expenses is rejected
references_expense(exps, expense_id) ==
    \E e \in exps : e.expense_id = expense_id

\* the split expense the edits and the delete are about
CreateSplitExpense ==
    \E amount_dollars \in Amounts, participant_user_ids \in RaceSplits :
        /\ next_expense_id = RaceExpense
        /\ next_expense_id <= MaxExpenses
        /\ create_expense("u1", amount_dollars, "lunch", TRUE, "g1",
                          participant_user_ids, FALSE, 0, 0)
        /\ UNCHANGED calls

\* the request arrives and update_expense calls get_expense_by_id: no row,
\* return None
update_get_expense(c) ==
    \E updates \in RaceUpdates :
        /\ calls[c].pc = "idle"
        /\ next_expense_id > RaceExpense
        /\ calls' = [calls EXCEPT ![c] =
                        [Idle EXCEPT !.expense_id = RaceExpense,
                                     !.updates = updates,
                                     !.pc = IF \E e \in expenses : e.expense_id = RaceExpense
                                            THEN "select" ELSE "done"]]
        /\ UNCHANGED <<expenses, transactions, next_expense_id,
                       next_transaction_id, now, last>>

\* current_expense_db = table.select("*").eq("expense_id", expense_id): no
\* row, return None
update_select(c) ==
    LET current == {e \in expenses : e.expense_id = calls[c].expense_id}
    IN  /\ calls[c].pc = "select"
        /\ calls' = [calls EXCEPT ![c] =
                        IF current = {} THEN [@ EXCEPT !.pc = "done"]
                        ELSE [@ EXCEPT !.pc = "get_transactions",
                                       !.current_expense_data = CHOOSE e \in current : TRUE]]
        /\ UNCHANGED <<expenses, transactions, next_expense_id,
                       next_transaction_id, now, last>>

\* existing_transactions = get_transactions_by_expense_id(expense_id); the
\* cascade runs when there are some, with the group of the first one: the
\* delete and re-create of a participant edit, else the re-pricing of an
\* amount edit
update_get_transactions(c) ==
    LET existing_transactions ==
            get_transactions_by_expense_id(transactions, calls[c].expense_id)
    IN  /\ calls[c].pc = "get_transactions"
        /\ \E group_id \in IF existing_transactions = {} THEN {None}
                           ELSE {t.group_id : t \in existing_transactions} :
               calls' = [calls EXCEPT ![c] =
                            [@ EXCEPT !.group_id = group_id,
                                      !.existing_transactions = existing_transactions,
                                      !.pc = IF group_id = None THEN "finish"
                                             ELSE IF Has(calls[c].updates, "participant_user_ids")
                                             THEN "delete"
                                             ELSE "update_transactions"]]
        /\ UNCHANGED <<expenses, transactions, next_expense_id,
                       next_transaction_id, now, last>>

\* delete_transactions_by_expense_id(expense_id)
update_delete_transactions(c) ==
    /\ calls[c].pc = "delete"
    /\ transactions' = delete_transactions_by_expense_id(transactions, calls[c].expense_id)
    /\ calls' = [calls EXCEPT ![c].pc = "create"]
    /\ UNCHANGED <<expenses, next_expense_id, next_transaction_id, now, last>>

\* one turn of `for participant_id in participant_user_ids:
\* create_transaction(...)`; an insert the store rejects raises, and the
\* `except` of the cascade ends the loop
update_create_transaction(c) ==
    LET call == calls[c]
        participant_user_ids == call.updates.participant_user_ids
        row == create_transaction(next_transaction_id, now, call.group_id,
                   call.current_expense_data.user_id,
                   participant_user_ids[call.i],
                   amount_per_person(new_amount(call.updates, call.current_expense_data),
                                     participant_user_ids),
                   new_description(call.updates, call.current_expense_data),
                   call.expense_id)
    IN  /\ call.pc = "create"
        /\ IF call.i > Len(participant_user_ids)
           THEN /\ calls' = [calls EXCEPT ![c].pc = "finish"]
                /\ UNCHANGED <<transactions, next_transaction_id>>
           ELSE IF references_expense(expenses, call.expense_id)
           THEN /\ next_transaction_id <= MaxTx
                /\ transactions' = transactions \cup {row}
                /\ next_transaction_id' = next_transaction_id + 1
                /\ calls' = [calls EXCEPT ![c].i = @ + 1]
           ELSE /\ calls' = [calls EXCEPT ![c].pc = "finish", ![c].raised = TRUE]
                /\ UNCHANGED <<transactions, next_transaction_id>>
        /\ UNCHANGED <<expenses, next_expense_id, now, last>>

\* only the amount changed: update_transactions_by_expense_id(expense_id,
\* amount=new_amount / (len(unique_participants) + 1)), the participants
\* counted in the rows read before
update_update_transactions(c) ==
    LET call == calls[c]
    IN  /\ call.pc = "update_transactions"
        /\ transactions' = cascade_amount(transactions, call.expense_id, call.updates,
                                call.current_expense_data, call.existing_transactions, 0)
        /\ calls' = [calls EXCEPT ![c].pc = "finish"]
        /\ UNCHANGED <<expenses, next_expense_id, next_transaction_id, now, last>>

\* clean_updates is empty: return get_expense_by_id(expense_id); else
\* table.update(clean_updates).eq("expense_id", expense_id), which returns
\* the updated row, or no row when the expense is gone
update_finish(c) ==
    LET call == calls[c]
        current == {e \in expenses : e.expense_id = call.expense_id}
        row == CHOOSE e \in current : TRUE
        written == expense_row_updated(call.updates, 0, FALSE)
    IN  /\ call.pc = "finish"
        /\ expenses' = IF written /\ current # {}
                       THEN (expenses \ current) \cup {clean_updates(call.updates, row)}
                       ELSE expenses
        /\ calls' = [calls EXCEPT ![c].pc = "done",
                                  ![c].result =
                                      IF current = {} THEN NoOut
                                      ELSE IF written
                                      THEN map_expense_fields(clean_updates(call.updates, row))
                                      ELSE map_expense_fields(row)]
        /\ UNCHANGED <<transactions, next_expense_id, next_transaction_id, now, last>>

\* delete_expense is one store call
delete_in_flight(c) ==
    /\ calls[c].pc = "idle"
    /\ next_expense_id > RaceExpense
    /\ delete_expense(RaceExpense, TRUE)
    /\ calls' = [calls EXCEPT ![c].pc = "done", ![c].expense_id = RaceExpense]

UpdateGetExpense == \E c \in Updaters : update_get_expense(c)
UpdateSelect == \E c \in Updaters : update_select(c)
UpdateGetTransactions == \E c \in Updaters : update_get_transactions(c)
UpdateDeleteTransactions == \E c \in Updaters : update_delete_transactions(c)
UpdateCreateTransaction == \E c \in Updaters : update_create_transaction(c)
UpdateUpdateTransactions == \E c \in Updaters : update_update_transactions(c)
UpdateFinish == \E c \in Updaters : update_finish(c)
DeleteInFlight == \E c \in Deleters : delete_in_flight(c)

NextRace ==
    \/ CreateSplitExpense
    \/ UpdateGetExpense
    \/ UpdateSelect
    \/ UpdateGetTransactions
    \/ UpdateDeleteTransactions
    \/ UpdateCreateTransaction
    \/ UpdateUpdateTransactions
    \/ UpdateFinish
    \/ DeleteInFlight

SpecRace == Init /\ [][NextRace]_vars

(***************************** properties ***********************************)
\* number of positions of list that hold u
CountIn(list, u) == Cardinality({i \in 1..Len(list) : list[i] = u})

\* rows holds one row per position of list, with that position's id as debtor
OnePerParticipant(rows, list) ==
    /\ Cardinality(rows) = Len(list)
    /\ \A u \in Users : Cardinality({t \in rows : t.user_owing = u}) = CountIn(list, u)

Linked(txs, expense_id) == {t \in txs : t.expense_id = expense_id}
Exists(exps, expense_id) == \E e \in exps : e.expense_id = expense_id
Row(exps, expense_id) == CHOOSE e \in exps : e.expense_id = expense_id

\* the last request was a create_expense that asked for a split
SplitRequested(r) ==
    /\ r.op = "create_expense"
    /\ r.args.is_group_expense
    /\ r.args.group_id # None
    /\ Len(r.args.participant_user_ids) >= 1

C2_PersonalExpenseEmitsNoRecord ==
    [][ (last'.op = "create_expense" /\ last'.ok /\ ~SplitRequested(last')) =>
          /\ transactions' = transactions
          /\ Exists(expenses', last'.eid) /\ ~Exists(expenses, last'.eid)
          /\ Cardinality(expenses') = Cardinality(expenses) + 1
      ]_vars

\* a personal expense was created although a participant was named (no flag)
C2_Witness ==
    /\ last.op = "create_expense" /\ last.ok
    /\ ~last.args.is_group_expense
    /\ last.args.group_id # None
    /\ Len(last.args.participant_user_ids) = 1
    /\ Exists(expenses, last.eid)
    /\ transactions = {}

UpdateOf(r, keys) == r.op = "update_expense" /\ DOMAIN r.args = keys

\* C4: update_expense that changes only the amount of a split expense sets the
\* amount of every linked transaction to new amount / (d + 1), d the number of
\* distinct debtors among the rows linked before, and leaves their ids,
\* creditors, debtors, group and notes as they were.
C4_AmountEditRescalesRecords ==
    [][ (UpdateOf(last', {"amount_dollars"}) /\ ~last'.failed
           /\ Exists(expenses, last'.eid)
           /\ Linked(transactions, last'.eid) # {}) =>
          LET old == Linked(transactions, last'.eid)
              d == Cardinality({t.user_owing : t \in old})
              a == last'.args.amount_dollars
          IN  /\ Linked(transactions', last'.eid) =
                    {[t EXCEPT !.amount = Rat(a[1], a[2] * (d + 1))] : t \in old}
              /\ transactions' \ Linked(transactions', last'.eid) =
                    transactions \ old
      ]_vars

\* 10.00 shared with two distinct others was re-priced to -6.00: -2.00 each
C4_Witness ==
    /\ UpdateOf(last, {"amount_dollars"}) /\ last.ok /\ ~last.failed
    /\ last.args.amount_dollars = <<-6, 1>>
    /\ last.pre = 2
    /\ Cardinality({t.user_owing : t \in Linked(transactions, last.eid)}) = 2
    /\ \A t \in Linked(transactions, last.eid) : t.amount = <<-2, 1>>

C6_DescriptionEditRenamesRecords ==
    [][ (UpdateOf(last', {"description"}) /\ ~last'.failed
           /\ Exists(expenses, last'.eid)
           /\ Linked(transactions, last'.eid) # {}) =>
          LET old == Linked(transactions, last'.eid)
          IN  /\ Linked(transactions', last'.eid) =
                    {[t EXCEPT !.notes = last'.args.description] : t \in old}
              /\ transactions' \ Linked(transactions', last'.eid) =
                    transactions \ old
      ]_vars

\* a split expense was renamed to "taxi"
C6_Witness ==
    /\ UpdateOf(last, {"description"}) /\ last.ok /\ ~last.failed
    /\ last.args.description = "taxi"
    /\ last.pre = 2
    /\ Cardinality(Linked(transactions, last.eid)) = 2
    /\ \A t \in Linked(transactions, last.eid) : t.notes = "taxi"

GroupedRead == last.op = "get_grouped" /\ last.args.group_ids # {}

\* the rows in the groups of the last settlements read
Fetched == {t \in transactions : t.group_id \in last.args.group_ids}

RECURSIVE SumOf(_)
\* exact sum of the amounts of a set of rows
SumOf(rows) ==
    IF rows = {} THEN Zero
    ELSE LET r == CHOOSE r \in rows : TRUE
         IN  RAdd(r.amount, SumOf(rows \ {r}))

Owed(user_id) == SumOf({t \in Fetched : t.user_owed = user_id})
Owing(user_id) == SumOf({t \in Fetched : t.user_owing = user_id})

\* the one fetched row, when there is exactly one, between two different users
SingleRecord(t) == Fetched = {t} /\ t.user_owed # t.user_owing

\* C8 as stated: the balance returned to a user is the exact sum of the
\* amounts of the rows where the user is creditor (owed), the exact sum where
\* the user is debtor (owing), and net = owed - owing; with a single record of
\* amount X between two different users the creditor's net is +X and the
\* debtor's net is -X.
C8_BalanceIsExactSum ==
    GroupedRead =>
        /\ last.out.total_owed = Owed(last.args.user_id)
        /\ last.out.total_owing = Owing(last.args.user_id)
        /\ last.out.user_balance = RSub(Owed(last.args.user_id), Owing(last.args.user_id))
        /\ \A t \in Fetched : SingleRecord(t) =>
            /\ last.args.user_id = t.user_owed => last.out.user_balance = t.amount
            /\ last.args.user_id = t.user_owing => last.out.user_balance = RNeg(t.amount)

\* C8 amended: each of the three figures is rounded to two decimals when it is
\* returned: owed = round2(sum as creditor), owing = round2(sum as debtor),
\* net = round2(sum as creditor - sum as debtor); with a single record of
\* amount X the creditor's net is round2(X) and the debtor's is -round2(X).
\* A user who is in no group gets net 0.
C8_BalanceIsRoundedSum ==
    /\ GroupedRead =>
        /\ last.out.total_owed = Round2(Owed(last.args.user_id))
        /\ last.out.total_owing = Round2(Owing(last.args.user_id))
        /\ last.out.user_balance = Round2(RSub(Owed(last.args.user_id), Owing(last.args.user_id)))
        /\ \A t \in Fetched : SingleRecord(t) =>
            /\ last.args.user_id = t.user_owed => last.out.user_balance = Round2(t.amount)
            /\ last.args.user_id = t.user_owing => last.out.user_balance = RNeg(Round2(t.amount))
    /\ (last.op = "get_grouped" /\ last.args.group_ids = {}) =>
        last.out.user_balance = Zero

\* a read by a user who is creditor of one fetched row and debtor of another,
\* where rounding changed the net
C8_Witness ==
    /\ GroupedRead
    /\ Owed(last.args.user_id) # Zero
    /\ Owing(last.args.user_id) # Zero
    /\ last.out.user_balance # RSub(Owed(last.args.user_id), Owing(last.args.user_id))
    /\ last.out.user_balance # Zero

\* the fetched rows are exactly the rows of one split expense e, one row per
\* distinct participant, created within Window seconds of one another
RoundTripOf(e) ==
    /\ GroupedRead
    /\ Fetched # {}
    /\ Fetched = {t \in transactions : t.expense_id = e.expense_id}
    /\ \A t, u \in Fetched : t.user_owing = u.user_owing => t = u
    /\ \A t, u \in Fetched : Abs(t.created_at - u.created_at) <= Window

\* the read returned one split with the rows of e: its debtors, its ids and
\* its per-person amount A/(k+1)
OneSplitOf(e) ==
    /\ Len(last.out.transactions) = 1
    /\ last.out.transactions[1].user_owing_list = {t.user_owing : t \in Fetched}
    /\ {last.out.transactions[1].transaction_ids[i] : i \in DOMAIN last.out.transactions[1].transaction_ids} = {t.transaction_id : t \in Fetched}
    /\ Len(last.out.transactions[1].transaction_ids) = Cardinality(Fetched)
    /\ last.out.transactions[1].amount_per_person = RDivInt(e.amount, Cardinality(Fetched) + 1)

\* C9 as stated: an expense of amount A split among k distinct participants,
\* its k rows created within one second of one another and no other row in
\* the queried groups, is read back as exactly one split with those k debtors,
\* those k row ids, perPerson A/(k+1) and total A.
C9_RoundTripTotalIsAmount ==
    \A e \in expenses : RoundTripOf(e) =>
        /\ OneSplitOf(e)
        /\ last.out.transactions[1].total_amount = e.amount

\* C9 amended: the same read returns exactly one split with those k debtors,
\* those k row ids and perPerson A/(k+1), and its total is perPerson * (k+1)
\* rounded to two decimals, which is A only when A is a whole number of cents.
C9_RoundTripTotalIsRoundedAmount ==
    \A e \in expenses : RoundTripOf(e) =>
        /\ OneSplitOf(e)
        /\ last.out.transactions[1].total_amount = Round2(e.amount)
        /\ (Round2(e.amount) = e.amount => last.out.transactions[1].total_amount = e.amount)

\* a round trip of a two-participant expense whose rows were created one
\* second apart and whose amount is not a whole number of cents
C9_Witness ==
    \E e \in expenses :
        /\ RoundTripOf(e)
        /\ Cardinality(Fetched) = 2
        /\ \E t, u \in Fetched : t.created_at # u.created_at
        /\ Round2(e.amount) # e.amount
        /\ OneSplitOf(e)

(***************************** settlements *********************************)
\* the step is a transaction-create request with a settlement note that was
\* answered with the new row
SettlementRecorded == last'.op = "create_transaction" /\ last'.ok /\ is_settlement(last'.args.notes)

\* exact net balance of a user over a set of debt rows
NetOver(rows, user_id) ==
    RSub(SumOf({t \in rows : t.user_owed = user_id}), SumOf({t \in rows : t.user_owing = user_id}))

SettlementNote(notes) == notes \in {"settlement", "Settlement", "SETTLEMENT"}

\* the step is a transaction-create request with a settlement note whose
\* create_transaction call did not fail
SettlementStep ==
    /\ last'.op = "create_transaction"
    /\ SettlementNote(last'.args.notes)
    /\ ~last'.args.insert_fails

\* expense rows of category Settlement recorded as outflow (credit = FALSE)
\* or inflow (credit = TRUE) of user_id with the given amount
SettlementRows(exps, user_id, amount, credit) ==
    {e \in exps : e.category = "Settlement" /\ e.user_id = user_id
                  /\ e.amount = amount /\ e.credit = credit}

SplitFailed ==
    /\ last'.op = "create_expense"
    /\ ~last'.faults.insert_fails
    /\ last'.faults.fail_at # 0

\* the expense a create_expense request asks for, under the names of the API
ExpenseAsked(r) ==
    [id |-> r.eid, user_id |-> r.args.user_id, amount_dollars |-> r.args.amount_dollars,
     credit |-> FALSE, category |-> "Food", description |-> r.args.description]

\* C12: if a DebtRecord insert fails during CreateExpense, the Expense row
\* already inserted remains in the store and CreateExpense returns that
\* Expense instead of an error.
C12_ExpenseSurvivesFailedSplit ==
    [][SplitFailed =>
        /\ expenses \subseteq expenses'
        /\ \E e \in expenses' \ expenses :
            /\ e.expense_id = last'.eid
            /\ e.user_id = last'.args.user_id
            /\ e.amount = last'.args.amount_dollars
            /\ e.notes = last'.args.description
        /\ last'.ok
        /\ last'.out = ExpenseAsked(last')]_vars

\* a two-participant split whose second insert failed: the expense is stored
\* and returned with one of its two records
C12_Witness ==
    /\ last.op = "create_expense" /\ last.failed /\ last.ok
    /\ Len(last.args.participant_user_ids) = 2
    /\ Exists(expenses, last.eid)
    /\ Cardinality(Linked(transactions, last.eid)) = 1
    /\ last.out = ExpenseAsked(last)

\* C13: when CreateExpense loses part or all of its split, the result it
\* returns carries a warning: it differs from the result the same request
\* returns when the split succeeds in full.
C13_DegradedCreateIsVisible ==
    [][SplitFailed => last'.out # ExpenseAsked(last')]_vars

\* the step is an update_expense of an existing expense in which a cascade
\* step raised and the write of the expense row did not
CascadeFailed ==
    /\ last'.op = "update_expense"
    /\ Exists(expenses, last'.eid)
    /\ last'.faults.cascade_fail # 0
    /\ ~last'.faults.row_fail

\* C14: if a cascade step (delete, re-create or in-place update of the linked
\* records) fails during UpdateExpense, the Expense row is still updated with
\* the requested field changes and UpdateExpense returns the updated Expense.
C14_ExpenseUpdatedDespiteFailedCascade ==
    [][CascadeFailed =>
        /\ Exists(expenses', last'.eid)
        /\ last'.ok
        /\ Row(expenses', last'.eid).amount =
                IF "amount_dollars" \in DOMAIN last'.args THEN last'.args.amount_dollars
                ELSE Row(expenses, last'.eid).amount
        /\ Row(expenses', last'.eid).notes =
                IF "description" \in DOMAIN last'.args THEN last'.args.description
                ELSE Row(expenses, last'.eid).notes
        /\ last'.out.id = last'.eid
        /\ last'.out.amount_dollars = Row(expenses', last'.eid).amount
        /\ last'.out.description = Row(expenses', last'.eid).notes]_vars

\* an amount edit whose cascade failed: the expense carries the new amount,
\* its records still the old share
C14_Witness ==
    /\ last.op = "update_expense" /\ last.failed /\ last.ok
    /\ DOMAIN last.args = {"amount_dollars"}
    /\ Exists(expenses, last.eid)
    /\ Row(expenses, last.eid).amount = last.args.amount_dollars
    /\ Linked(transactions, last.eid) # {}
    /\ \A t \in Linked(transactions, last.eid) :
        t.amount # RDivInt(last.args.amount_dollars, Cardinality(Linked(transactions, last.eid)) + 1)

\* C18: UpdateExpense and DeleteExpense called with an expense id that is
\* absent from the store report not-found (no expense, false) and leave every
\* Expense row and every DebtRecord unchanged.
C18_AbsentExpenseReportsNotFound ==
    [][(last'.op \in {"update_expense", "delete_expense"} /\ ~Exists(expenses, last'.eid)) =>
        /\ ~last'.ok
        /\ expenses' = expenses
        /\ transactions' = transactions]_vars

(***************************** requests in flight together *****************)
Done(c) == calls[c].pc = "done"

\* the edit c has deleted the old rows and not yet finished its re-create loop
BetweenDeleteAndRecreate(c) == calls[c].pc = "create"

\* the edit c changes the participant list
EditsParticipants(c) == Has(calls[c].updates, "participant_user_ids")

\* the edit c changes the amount
EditsAmount(c) == Has(calls[c].updates, "amount_dollars")

\* both edits of the split expense, each with a participant list, have
\* completed and no delete has arrived
BothUpdatesDone ==
    /\ Done("a") /\ Done("b") /\ calls["d"].pc = "idle"
    /\ EditsParticipants("a") /\ EditsParticipants("b")

\* C19: two edits of one split expense with participant lists P1 and P2 are
\* serialized: neither is between its delete and the end of its re-create
\* loop while the other is, and after both have completed the records linked
\* to the expense are exactly one per participant of P1 or exactly one per
\* participant of P2 (never rows of both lists, never a doubled split)
C19_ConcurrentUpdatesSerialized ==
    /\ ~(BetweenDeleteAndRecreate("a") /\ BetweenDeleteAndRecreate("b"))
    /\ BothUpdatesDone =>
           \/ OnePerParticipant(Linked(transactions, RaceExpense),
                                calls["a"].updates.participant_user_ids)
           \/ OnePerParticipant(Linked(transactions, RaceExpense),
                                calls["b"].updates.participant_user_ids)

\* an edit and the delete of the same expense have both completed
UpdateAndDeleteDone ==
    Done("d") /\ \E c \in Updaters : Done(c) /\ EditsParticipants(c)

Splits == last.out.transactions

\* the row ids listed by the k-th returned split
IdsOf(k) == {Splits[k].transaction_ids[i] : i \in DOMAIN Splits[k].transaction_ids}

\* the fetched rows listed by the k-th returned split
Members(k) == {t \in Fetched : t.transaction_id \in IdsOf(k)}

\* the places <<k, i>> where the id of row t is listed
Listings(t) ==
    {ki \in UNION {{<<k, i>> : i \in DOMAIN Splits[k].transaction_ids} : k \in DOMAIN Splits} :
        Splits[ki[1]].transaction_ids[ki[2]] = t.transaction_id}

\* C21: the clustering partitions what was fetched: every fetched row (all
\* rows carry created_at) is listed exactly once, in exactly one returned
\* split, and nothing else is listed
C21_GroupingPartitionsFetched ==
    GroupedRead =>
        /\ \A t \in Fetched : Cardinality(Listings(t)) = 1
        /\ \A k \in DOMAIN Splits : IdsOf(k) \subseteq {t.transaction_id : t \in Fetched}

\* a read of three rows that came back as two splits, one of them of two rows
C21_Witness ==
    /\ GroupedRead
    /\ Cardinality(Fetched) = 3
    /\ Len(Splits) = 2
    /\ \E k \in DOMAIN Splits : Cardinality(IdsOf(k)) = 2

\* the ids of the rows linked to expense e
LinkedIds(e) == {t.transaction_id : t \in Linked(transactions, e.expense_id)}

\* C22 as stated: the row ids of every returned split are exactly the rows
\* linked to one single expense, whatever the creation times of the rows
C22_SplitIsOneExpense ==
    GroupedRead =>
        \A k \in DOMAIN Splits : \E e \in expenses : IdsOf(k) = LinkedIds(e)

\* the rows of expense e were fetched, lie within Window seconds of one
\* another, and no other fetched row of their group and creditor lies within
\* Window seconds of any of them
Isolated(e) ==
    LET rows == Linked(transactions, e.expense_id)
    IN  /\ rows # {}
        /\ rows \subseteq Fetched
        /\ \A t, u \in rows : Abs(t.created_at - u.created_at) <= Window
        /\ \A t \in rows : \A q \in Fetched \ rows :
               (q.group_id = t.group_id /\ q.user_owed = t.user_owed)
                   => Abs(q.created_at - t.created_at) > Window

\* C22 amended: a returned split is a cluster by group, creditor and time:
\* its rows have the group and the creditor of the split and were created
\* within Window (one second) of the split's timestamp.  It is the set of
\* rows of one single expense when that expense is isolated in time: then
\* exactly one returned split lists exactly the rows of the expense.
C22_SplitIsWindowCluster ==
    GroupedRead =>
        /\ \A k \in DOMAIN Splits : \A t \in Members(k) :
               /\ t.group_id = Splits[k].group_id
               /\ t.user_owed = Splits[k].user_owed
               /\ Abs(t.created_at - Splits[k].created_at) <= Window
        /\ \A e \in expenses : Isolated(e) =>
               Cardinality({k \in DOMAIN Splits : IdsOf(k) = LinkedIds(e)}) = 1

\* two expenses of one creditor in one group, created more than Window apart,
\* read back as two splits
C22_Witness ==
    /\ GroupedRead
    /\ Len(Splits) = 2
    /\ \E e, f \in expenses :
           /\ e # f
           /\ Isolated(e) /\ Isolated(f)
           /\ e.user_id = f.user_id
           /\ \A t \in Linked(transactions, e.expense_id) :
                  \A u \in Linked(transactions, f.expense_id) : t.group_id = u.group_id

\* the seed of the k-th returned split: the first row of its cluster, which
\* is the first row in fetch order that no earlier cluster took
SeedOf(k) == CHOOSE t \in Fetched : t.transaction_id = Splits[k].transaction_ids[1]

\* the distinct debtors of the k-th returned split's rows
DebtorsOf(k) == {t.user_owing : t \in Members(k)}

\* creditor, group and timestamp of the k-th split are its seed's; the seed
\* is a newest row among the rows no earlier split took; the debtors are the
\* distinct debtors of the cluster and perPerson is the amount of a member
SplitFromSeed(k) ==
    /\ Splits[k].user_owed = SeedOf(k).user_owed
    /\ Splits[k].group_id = SeedOf(k).group_id
    /\ Splits[k].created_at = SeedOf(k).created_at
    /\ \A j \in DOMAIN Splits : j >= k =>
           \A t \in Members(j) : t.created_at <= SeedOf(k).created_at
    /\ Splits[k].user_owing_list = DebtorsOf(k)
    /\ Splits[k].amount_per_person \in {t.amount : t \in Members(k)}

\* C23 as stated: every returned split is built from its seed, and its total
\* is perPerson x (number of distinct debtors + 1), also when the rows of the
\* cluster carry differing amounts
C23_SplitTotalIsExactProduct ==
    GroupedRead =>
        \A k \in DOMAIN Splits :
            /\ SplitFromSeed(k)
            /\ Splits[k].total_amount =
                   RMulInt(Splits[k].amount_per_person, Cardinality(DebtorsOf(k)) + 1)

\* C23 amended: every returned split is built from its seed, and its total is
\* perPerson x (number of distinct debtors + 1) rounded to two decimals, also
\* when the rows of the cluster carry differing amounts
C23_SplitTotalIsRoundedProduct ==
    GroupedRead =>
        \A k \in DOMAIN Splits :
            /\ SplitFromSeed(k)
            /\ Splits[k].total_amount =
                   Round2(RMulInt(Splits[k].amount_per_person, Cardinality(DebtorsOf(k)) + 1))
            /\ Splits[k].participant_count = Cardinality(DebtorsOf(k)) + 1

\* a returned split whose rows carry differing amounts and whose total was
\* changed by the rounding
C23_Witness ==
    /\ GroupedRead
    /\ \E k \in DOMAIN Splits :
           /\ \E t, u \in Members(k) : t.amount # u.amount
           /\ Splits[k].total_amount #
                  RMulInt(Splits[k].amount_per_person, Cardinality(DebtorsOf(k)) + 1)

\* C24: the store returning the rows newest first, the splits are returned
\* in non-increasing order of their timestamps, which are their seeds'
C24_SplitsNewestFirst ==
    GroupedRead =>
        \A j, k \in DOMAIN Splits :
            j < k => /\ Splits[j].created_at >= Splits[k].created_at
                     /\ SeedOf(j).created_at >= SeedOf(k).created_at

\* a read that returned splits of different timestamps
C24_Witness ==
    /\ GroupedRead
    /\ Len(Splits) >= 2
    /\ Splits[1].created_at > Splits[Len(Splits)].created_at

RecreateFailed ==
    /\ last'.op = "update_expense"
    /\ Has(last'.args, "participant_user_ids")
    /\ Exists(expenses, last'.eid)
    /\ Linked(transactions, last'.eid) # {}
    /\ last'.faults.cascade_fail >= 2

\* C27: an edit with a participant list during which an insert of the
\* re-create loop fails leaves, linked to the expense, either all the rows it
\* had before the edit or one new row per member of the list, never no row or
\* some of the new rows only
C27_ParticipantEditIsAllOrNothing ==
    [][ RecreateFailed =>
          \/ Linked(transactions', last'.eid) = Linked(transactions, last'.eid)
          \/ /\ OnePerParticipant(Linked(transactions', last'.eid),
                                  last'.args.participant_user_ids)
             /\ Linked(transactions', last'.eid) \cap Linked(transactions, last'.eid) = {}
      ]_vars

\* the last request was an edit whose write of the expense row failed, so
\* that it returned no expense
RowWriteFailed ==
    /\ last'.op = "update_expense"
    /\ Exists(expenses, last'.eid)
    /\ last'.faults.row_fail
    /\ last'.out = NoOut

\* C30: when update_expense returns no expense because the write of the
\* expense row failed, the rows of transactions linked to the expense are
\* what they were before the request
C30_FailedUpdateChangesNothing ==
    [][ RowWriteFailed =>
          Linked(transactions', last'.eid) = Linked(transactions, last'.eid)
      ]_vars

(***************************** unsplit expenses ****************************)
\* C29: update_expense creates no row of transactions for an expense that has
\* none, whatever the changes; an edit with an empty participant list removes
\* every row of a split expense, after which no edit gives it rows again
C29_UnsplitIsAbsorbing ==
    [][ last'.op = "update_expense" =>
          /\ \A x \in ExpenseIds :
                 Linked(transactions, x) = {} => Linked(transactions', x) = {}
          /\ (/\ Has(last'.args, "participant_user_ids")
              /\ last'.args.participant_user_ids = <<>>
              /\ ~last'.failed
              /\ Exists(expenses, last'.eid)) =>
                 Linked(transactions', last'.eid) = {}
      ]_vars

\* an edit with a non-empty participant list of an expense that had no rows:
\* the request succeeded and the expense still has none
C29_Witness ==
    /\ last.op = "update_expense" /\ last.ok
    /\ Has(last.args, "participant_user_ids")
    /\ Len(last.args.participant_user_ids) >= 1
    /\ last.pre = 0
    /\ Exists(expenses, last.eid)
    /\ Linked(transactions, last.eid) = {}

(***************************** amount edits in flight together *************)
\* both edits of the split expense, each of the amount only, have completed
\* and no delete has arrived
BothAmountEditsDone ==
    /\ Done("a") /\ Done("b") /\ calls["d"].pc = "idle"
    /\ EditsAmount("a") /\ EditsAmount("b")

\* C28: after two amount-only edits of one split expense that were in flight
\* together have both completed, whatever the order of their store calls,
\* every linked row has amount = the stored amount of the expense / (d + 1),
\* d the number of distinct debtors of the linked rows
C28_ConcurrentAmountEditsAgree ==
    BothAmountEditsDone =>
        LET rows == Linked(transactions, RaceExpense)
            d == Cardinality({t.user_owing : t \in rows})
        IN  \A t \in rows :
                t.amount = RDivInt(Row(expenses, RaceExpense).amount, d + 1)

====
